---- MODULE Spec2Model ----
(***************************************************************************)
(* A model of the C ABI wrapper around the DXC shader compiler             *)
(* (src/src/mach_dxc.cpp, src/src/mach_dxc.h).                             *)
(*                                                                         *)
(* Three specifications share the variables:                               *)
(*   Spec         the handle lifecycle: machDxcInit, machDxcDeinit,        *)
(*                machDxcCompile (one action per call), the extraction     *)
(*                functions, the accessors and the deinit functions;       *)
(*   SpecModule   machDxcInit, machDxcDeinit and machDxcCompile on         *)
(*                several Compiler handles;                                *)
(*   SpecCompile  the inside of one machDxcCompile call, statement by      *)
(*                statement, with the include handler's LoadSource.        *)
(*                                                                         *)
(* Reference counting follows CComPtr: constructing a CComPtr from a raw   *)
(* pointer calls AddRef, its Release method calls Release and nulls the    *)
(* pointer, Detach nulls the pointer without a Release, and the destructor *)
(* calls Release when the pointer is still set.                            *)
(***************************************************************************)
EXTENDS Integers, Sequences, FiniteSets, TLC

\* ------------------------------------------------------------- bounds
\* Compiler handles created in one behaviour.
MaxCompilers == 1
\* Compiler handles created in one behaviour of SpecModule.
MaxInits == 2
\* CompileResults created in one behaviour.
MaxResults == 1
\* Handles extracted from results (non-null returns of the two extraction
\* functions) in one behaviour.
MaxGets == 2

\* Arguments in options->args, and bytes in one argument.
MaxArgs == 2
MaxArgLen == 2
\* Bytes of the scratch buffer for the converted arguments. The source
\* allocates 4096; the model scales it down so that short argument lists
\* reach the end of the buffer.
ScratchBytes == 8
\* LoadSource requests the native compiler makes during one Compile.
MaxIncludes == 2
\* Wide characters in a requested file name.
MaxNameLen == 1
\* Largest header_length an include result carries.
MaxHeaderLen == 1

VARIABLES
    ndebug,     \* the build defines NDEBUG: assert() expands to nothing
    aborted,    \* an assert() has terminated the process
    module,     \* process-wide state of the statically linked dxcompiler module
    compilers,  \* the IDxcCompiler3 objects, in the order machDxcInit made them
    results,    \* the IDxcResult objects with their two outputs, in creation order
    last,       \* the last API call: its name, the object it was given, what it returned
    \* the inside of one machDxcCompile call
    pc,         \* the statement the call is at ("idle" outside a call)
    ub,         \* the call has executed undefined behaviour
    wsize,      \* sizeof(wchar_t) of the platform
    locale,     \* the process's current LC_CTYPE locale
    envLocale,  \* the locale setlocale(LC_CTYPE, "") selects
    argsLen,    \* options->args_len
    args,       \* options->args[0 .. i-1], the arguments the loop has converted
    bufs,       \* whether arguments and wtext_buf are allocated
    m,          \* the scratch buffer, the write cursor and the arguments array
    cb,         \* options->include_callbacks
    handler,    \* the MachDxcIncludeHandler of this call
    loads,      \* LoadSource calls made by the native compiler in this call
    ls,         \* the last LoadSource call: its return, callback calls and output
    hr,         \* the HRESULT of dxcInstance->Compile
    native      \* what Compile stored in pCompileResult

lifeVars == <<ndebug, aborted, module, compilers, results, last>>
callVars == <<pc, ub, wsize, locale, envLocale, argsLen, args, bufs, m, cb,
              handler, loads, ls, hr, native>>
vars == <<lifeVars, callVars>>

\* ------------------------------------------------------------- values
Null == <<"null", 0>>
CompilerH(c) == <<"compiler", c>>
ResultH(r) == <<"result", r>>
ErrorH(r) == <<"error", r>>
ObjectH(r) == <<"object", r>>

\* What the native compiler can put in a result. status is the compile's
\* outcome; an output is absent (GetOutput stores a null pointer), or a blob
\* whose data may be empty. A successful compile has object bytes and may
\* carry warnings; a failed compile has diagnostics and no object bytes.
NativeOutcomes ==
    { [status |-> "ok", err |-> e, obj |-> <<TRUE, <<"b", "c">>>>] :
          e \in { <<FALSE, <<>>>>, <<TRUE, <<>>>>, <<TRUE, <<"w">>>> } }
    \cup
    { [status |-> "fail", err |-> <<TRUE, <<"e">>>>, obj |-> o] :
          o \in { <<FALSE, <<>>>>, <<TRUE, <<>>>> } }

\* A reference-counted native object: rc is its reference count, alive is
\* FALSE once the count has reached 0 (the object has destroyed itself),
\* held is the number of handles on it the caller has obtained and not yet
\* given to the matching deinit function.
NewObject(heldByCaller) == [rc |-> 1, alive |-> TRUE, held |-> heldByCaller]

\* IUnknown::AddRef and IUnknown::Release on a native object.
AddRef(x) == [x EXCEPT !.rc = @ + 1]
Release(x) == [x EXCEPT !.rc = @ - 1, !.alive = @ /\ x.rc - 1 > 0]

\* An output of a result: present is FALSE when the result has no such
\* output; the result object owns one reference of a present output.
NewBlob(o) ==
    [present |-> o[1], data |-> o[2],
     rc |-> IF o[1] THEN 1 ELSE 0, alive |-> o[1], held |-> 0]

\* The IDxcResult that Compile stores through IID_PPV_ARGS(&pCompileResult)
\* and pCompileResult.Detach() hands to the caller.
NewResult(n) ==
    [rc |-> 1, alive |-> TRUE, held |-> 1, status |-> n.status,
     err |-> NewBlob(n.err), obj |-> NewBlob(n.obj)]

\* Release on an IDxcResult: when the count reaches 0 the result is
\* destroyed and gives up the reference it owns of each present output.
ReleaseResult(res) ==
    LET r1 == Release(res)
        dies == res.alive /\ ~r1.alive
        drop(b) == IF dies /\ b.present THEN Release(b) ELSE b
    IN [r1 EXCEPT !.err = drop(@), !.obj = drop(@)]

\* ------------------------------------------------------------- module hooks
\* MachDxcompilerInvokeDllMain and MachDxcompilerInvokeDllShutdown: the
\* set-up and teardown of the statically linked module, with their counts.
\* seq is the order of what the last machDxcInit or machDxcDeinit call did:
\* Called starts a call, Did records one of its statements.
Called(st) == [st EXCEPT !.seq = <<>>]
Did(st, what) == [st EXCEPT !.seq = Append(@, what)]
DllMain(st) == Did([st EXCEPT !.up = TRUE, !.mains = @ + 1], "DllMain")
DllShutdown(st) == Did([st EXCEPT !.up = FALSE, !.shutdowns = @ + 1], "DllShutdown")

\* ------------------------------------------------------------- handle effects
\* machDxcDeinit on its IDxcCompiler3: CComPtr(raw) takes a reference of
\* its own, dxcInstance.Release() gives that one back and nulls the pointer,
\* so the destructor releases nothing. The caller's handle is spent.
machDxcDeinitObject(x) ==
    [Release(AddRef(x)) EXCEPT !.held = @ - 1]

\* machDxcCompileResultDeinit on its IDxcResult, the same three steps.
machDxcCompileResultDeinitObject(res) ==
    [ReleaseResult(AddRef(res)) EXCEPT !.held = @ - 1]

\* machDxcCompileObjectDeinit on its IDxcBlob.
machDxcCompileObjectDeinitObject(b) ==
    [Release(AddRef(b)) EXCEPT !.held = @ - 1]

\* A machDxcCompileErrorDeinit that releases the handle's reference and one more.
machDxcCompileErrorDeinitObject_ReleaseTwice(b) ==
    [Release(Release(b)) EXCEPT !.held = @ - 1]

\* machDxcCompileErrorDeinit on its IDxcBlobUtf8.
machDxcCompileErrorDeinitObject(b) ==
    [Release(AddRef(b)) EXCEPT !.held = @ - 1]

\* IDxcResult::GetOutput(kind, IID_PPV_ARGS(&p), nullptr): stores the output
\* with a reference added for the caller, or a null pointer when the result
\* has no such output.
GetOutput(b) == IF b.present THEN AddRef(b) ELSE b

\* An extraction that returns the pointer without Detach(): the CComPtr's
\* destructor releases the reference the returned handle should own.
Extract_NoDetach(res, b) ==
    LET r1 == AddRef(res)
        b1 == GetOutput(b)
        nonnull == b1.present /\ Len(b1.data) > 0
        b2 == IF nonnull THEN [Release(b1) EXCEPT !.held = @ + 1]
              ELSE IF b1.present THEN Release(b1) ELSE b1
    IN [res |-> r1, out |-> b2, ret |-> nonnull]

\* An extraction that detaches before it looks at the length: the reference
\* of an empty output is never released.
Extract_DetachFirst(res, b) ==
    LET r1 == AddRef(res)
        b1 == GetOutput(b)
        nonnull == b1.present /\ Len(b1.data) > 0
        b2 == IF nonnull THEN [b1 EXCEPT !.held = @ + 1] ELSE b1
    IN [res |-> r1, out |-> b2, ret |-> nonnull]

\* The body shared by the two extraction functions, on the result and the
\* output it asks for: [res, out, ret], ret being TRUE for a non-null return.
\*   CComPtr(raw) on the result; GetOutput into an empty CComPtr; when the
\*   pointer is set and the length positive, Detach() keeps the reference
\*   for the returned handle; otherwise the CComPtr's destructor releases
\*   it; the result's CComPtr is released by its destructor.
Extract(res, b) ==
    LET r1 == AddRef(res)
        b1 == GetOutput(b)
        nonnull == b1.present /\ Len(b1.data) > 0
        b2 == IF nonnull THEN [b1 EXCEPT !.held = @ + 1]
              ELSE IF b1.present THEN Release(b1) ELSE b1
    IN [res |-> r1, out |-> b2, ret |-> nonnull]

\* machDxcCompileResultGetError: the result after the call, and the return.
machDxcCompileResultGetErrorObject(res) ==
    LET x == Extract(res, res.err)
    IN [res |-> ReleaseResult([x.res EXCEPT !.err = x.out]), ret |-> x.ret]

\* A machDxcCompileResultGetObject that tests only the pointer, not the size.
machDxcCompileResultGetObjectObject_NoLengthCheck(res) ==
    LET r1 == AddRef(res)
        b1 == GetOutput(res.obj)
        b2 == IF b1.present THEN [b1 EXCEPT !.held = @ + 1] ELSE b1
    IN [res |-> ReleaseResult([r1 EXCEPT !.obj = b2]), ret |-> b1.present]

\* machDxcCompileResultGetObject: the result after the call, and the return.
machDxcCompileResultGetObjectObject(res) ==
    LET x == Extract(res, res.obj)
    IN [res |-> ReleaseResult([x.res EXCEPT !.obj = x.out]), ret |-> x.ret]

\* An accessor that adds its reference and never gives it back.
Accessor_NoRelease(b) == AddRef(b)

\* The four accessors wrap the handle in a CComPtr for the duration of the
\* call: AddRef at construction, Release at destruction.
Accessor(b) == Release(AddRef(b))

\* machDxcCompileObjectGetBytesLength / machDxcCompileErrorGetStringLength.
GetBufferSize(b) == Len(b.data)
GetStringLength(b) == Len(b.data)

\* ------------------------------------------------------------- strings
\* A narrow string is a sequence of bytes, a wide string a sequence of wide
\* characters. The model's character set: byte 1 is an ASCII character,
\* wide character 1; bytes 2 2 are the two-byte encoding of wide character
\* 2, which only the multibyte locale "MB" has (a byte 2 not followed by
\* another is an invalid sequence); wide character 3 has no encoding in any
\* locale. The "C" locale has the ASCII character only.
Bytes == {1, 2}
WideChars == {1, 2, 3}
SeqsUpTo(S, n) == UNION { [1..k -> S] : k \in 0..n }
ArgStrings == SeqsUpTo(Bytes, MaxArgLen)
FileNames == SeqsUpTo(WideChars, MaxNameLen)

\* MB_CUR_MAX of a locale.
MbCurMax(loc) == IF loc = "C" THEN 1 ELSE 2

\* size_t arithmetic wraps modulo 2^w; the model takes w = 16, which is
\* above every quantity it computes.
SizeMod == 2^16
SizeMax == SizeMod - 1

\* The multibyte character at the head of s: ok is FALSE for an invalid or
\* incomplete sequence, used is the number of bytes it takes.
MbDecode(loc, s) ==
    IF s[1] = 1 THEN [ok |-> TRUE, wc |-> 1, used |-> 1]
    ELSE IF loc = "MB" /\ s[1] = 2 /\ Len(s) >= 2 /\ s[2] = 2
         THEN [ok |-> TRUE, wc |-> 2, used |-> 2]
         ELSE [ok |-> FALSE, wc |-> 0, used |-> 0]

\* The bytes of a wide character, <<>> when the locale cannot encode it.
WcEncode(loc, wc) ==
    IF wc = 1 THEN <<1>>
    ELSE IF wc = 2 /\ loc = "MB" THEN <<2, 2>> ELSE <<>>

\* std::mbstowcs(dst, s, n): out is what it stores at dst (0 is the
\* terminator, stored only when fewer than n characters were converted),
\* ret the count of characters converted, SizeMax ((size_t)-1) on an
\* invalid sequence.
RECURSIVE mbstowcs(_, _, _, _)
mbstowcs(loc, s, n, out) ==
    IF Len(out) >= n THEN [ret |-> Len(out), out |-> out]
    ELSE IF s = <<>> THEN [ret |-> Len(out), out |-> Append(out, 0)]
    ELSE LET d == MbDecode(loc, s)
         IN IF ~d.ok THEN [ret |-> SizeMax, out |-> out]
            ELSE mbstowcs(loc, SubSeq(s, d.used + 1, Len(s)), n,
                          Append(out, d.wc))

\* std::wcstombs(dst, w, n): out is the bytes it stores, nul whether it
\* stored the terminator after them (only when fewer than n bytes were
\* stored), ret the count of bytes, SizeMax when a character cannot be
\* encoded.
RECURSIVE wcstombs(_, _, _, _)
wcstombs(loc, w, n, out) ==
    IF w = <<>> THEN [ret |-> Len(out), out |-> out, nul |-> Len(out) < n]
    ELSE LET e == WcEncode(loc, Head(w))
         IN IF e = <<>> THEN [ret |-> SizeMax, out |-> out, nul |-> FALSE]
            ELSE IF Len(out) + Len(e) > n
                 THEN [ret |-> Len(out), out |-> out, nul |-> FALSE]
                 ELSE wcstombs(loc, Tail(w), n, out \o e)

\* wcstombsAlloc(inval). before is the locale at entry (it sizes the
\* buffer through MB_CUR_MAX), after the locale setlocale(LC_CTYPE, "")
\* selects (it does the conversion), wsz is sizeof(wchar_t). null is the
\* null return; str the bytes of the returned buffer before its last one;
\* terminated whether that last byte is 0; oob whether wcstombs stored
\* bytes past the outsz bytes allocated.
wcstombsAlloc(inval, before, after, wsz) ==
    LET size == Len(inval)
        outsz == (size + 1) * MbCurMax(before)
        r == wcstombs(after, inval, size * wsz, <<>>)
        stored == Len(r.out) + (IF r.nul THEN 1 ELSE 0)
    IN [null |-> r.ret = SizeMax,
        str |-> IF r.ret = SizeMax THEN <<>> ELSE r.out,
        terminated |-> r.ret # SizeMax /\ r.ret < outsz,
        oob |-> stored > outsz]

\* ------------------------------------------------------------- argument marshaling
\* wchar_t elements of the scratch buffer (4096 / sizeof(wchar_t) in the source).
Cap(wsz) == ScratchBytes \div wsz

\* The marshaling state before the loop: the buffer as malloc returns it
\* (-1 is an indeterminate element), the cursor at its start (the cursor
\* is kept as wtext_cursor - wtext_buf), no argument pointer stored.
MarshalStart(wsz) ==
    [wbuf |-> [j \in 1..Cap(wsz) |-> -1], cursor |-> 0, arguments |-> <<>>]

\* An iteration that advances the cursor by written, leaving no element for
\* the terminator.
MarshalArg_NoTerminatorSlot(loc, cap, st, arg) ==
    LET off == st.cursor
        available == (cap - off) % SizeMod
        r == mbstowcs(loc, arg, available, <<>>)
        n == Len(r.out)
    IN [st |-> [wbuf |-> [j \in 1..cap |->
                            IF j > off /\ j <= off + n THEN r.out[j - off]
                            ELSE st.wbuf[j]],
                cursor |-> off + (r.ret % SizeMod),
                arguments |-> Append(st.arguments, off)],
        oob |-> n > 0 /\ off + n > cap]

\* One iteration of the loop over options->args, on the argument arg:
\*   available = capacity - (wtext_cursor - wtext_buf), in size_t;
\*   written = mbstowcs(wtext_cursor, arg, available);
\*   arguments[i] = wtext_cursor;  wtext_cursor += written + 1.
\* st is the state after the iteration, oob whether mbstowcs stored an
\* element outside the buffer.
MarshalArg(loc, cap, st, arg) ==
    LET off == st.cursor
        available == (cap - off) % SizeMod
        r == mbstowcs(loc, arg, available, <<>>)
        n == Len(r.out)
    IN [st |-> [wbuf |-> [j \in 1..cap |->
                            IF j > off /\ j <= off + n THEN r.out[j - off]
                            ELSE st.wbuf[j]],
                cursor |-> off + ((r.ret + 1) % SizeMod),
                arguments |-> Append(st.arguments, off)],
        oob |-> n > 0 /\ off + n > cap]

\* ------------------------------------------------------------- the include handler
\* options->include_callbacks: absent (a null pointer), or a structure whose
\* two function pointers may each be null (inc, free: TRUE is non-null) and
\* whose include_ctx is ctx.
Callbacks ==
    { [present |-> FALSE, inc |-> FALSE, free |-> FALSE, ctx |-> 0] }
    \cup
    { [present |-> TRUE, inc |-> i, free |-> f, ctx |-> c] :
          i \in BOOLEAN, f \in BOOLEAN, c \in {0, 1} }

\* What include_func can return: a null pointer, or a MachDxcIncludeResult
\* whose header_data is null (with any header_length) or points at
\* header_length bytes.
NullResult == [isnull |-> TRUE, hasdata |-> FALSE, data |-> <<>>, len |-> 0]
IncludeResults ==
    { NullResult }
    \cup { [isnull |-> FALSE, hasdata |-> FALSE, data |-> <<>>, len |-> l] :
              l \in 0..MaxHeaderLen }
    \cup { [isnull |-> FALSE, hasdata |-> TRUE, data |-> d, len |-> Len(d)] :
              d \in SeqsUpTo({1}, MaxHeaderLen) }

\* A call LoadSource makes: f is the callee, ctx the context it is given,
\* text and len the string and length it is given, res the include result
\* it is given or returns.
Event(f, ctx, text, len, res) ==
    [f |-> f, ctx |-> ctx, text |-> text, len |-> len, res |-> res]

\* No LoadSource call has been made. name and conv are the argument and the
\* result of the wcstombsAlloc call of a LoadSource that got past its guard.
NoConv == [null |-> FALSE, str |-> <<>>, terminated |-> TRUE, oob |-> FALSE]
NoLoad ==
    [hr |-> "none", convNull |-> FALSE, nameTerminated |-> TRUE, calls |-> <<>>,
     out |-> [written |-> FALSE, data |-> <<>>, len |-> 0],
     name |-> <<>>, conv |-> NoConv]

\* A LoadSource that calls free_func only for a non-null result.
LoadSource_SkipFreeOnNull(c, conv, res, blobOk) ==
    IF ~c.inc \/ ~c.free THEN [NoLoad EXCEPT !.hr = "E_POINTER"]
    ELSE
      LET filename_utf8 == IF conv.null THEN <<>> ELSE conv.str
          include_text == IF ~res.isnull /\ res.hasdata THEN res.data ELSE <<>>
          include_len == IF ~res.isnull THEN res.len ELSE 0
      IN [hr |-> "S_OK",
          convNull |-> conv.null,
          nameTerminated |-> conv.null \/ conv.terminated,
          calls |-> << Event("include_func", c.ctx, filename_utf8, 0, res),
                       Event("CreateBlob", 0, include_text, include_len, NullResult) >>
                    \o (IF res.isnull THEN <<>>
                        ELSE << Event("free_func", c.ctx, <<>>, 0, res) >>),
          out |-> IF blobOk
                  THEN [written |-> TRUE, data |-> include_text, len |-> include_len]
                  ELSE NoLoad.out]

\* A LoadSource whose guard refuses only when both function pointers are null.
LoadSource_BothNull(c, conv, res, blobOk) ==
    IF ~c.inc /\ ~c.free THEN [NoLoad EXCEPT !.hr = "E_POINTER"]
    ELSE
      LET filename_utf8 == IF conv.null THEN <<>> ELSE conv.str
          include_text == IF ~res.isnull /\ res.hasdata THEN res.data ELSE <<>>
          include_len == IF ~res.isnull THEN res.len ELSE 0
      IN [hr |-> "S_OK",
          convNull |-> conv.null,
          nameTerminated |-> conv.null \/ conv.terminated,
          calls |-> (IF c.inc
                     THEN << Event("include_func", c.ctx, filename_utf8, 0, res) >>
                     ELSE <<>>)
                    \o << Event("CreateBlob", 0, include_text, include_len, NullResult) >>
                    \o (IF c.free
                        THEN << Event("free_func", c.ctx, <<>>, 0, res) >>
                        ELSE <<>>),
          out |-> IF blobOk
                  THEN [written |-> TRUE, data |-> include_text, len |-> include_len]
                  ELSE NoLoad.out]

\* MachDxcIncludeHandler::LoadSource(filename, ppIncludeSource) on the
\* callbacks c. conv is what wcstombsAlloc(filename) returned, res what
\* include_func returns, blobOk whether utils->CreateBlob succeeds. hr is
\* the return, convNull whether wcstombsAlloc returned null (an empty string
\* then stands for the name), nameTerminated whether the string given to
\* include_func ends in a 0 byte inside its allocation, calls the calls
\* made in order, out what was stored through ppIncludeSource.
LoadSource(c, conv, res, blobOk) ==
    IF ~c.inc \/ ~c.free THEN [NoLoad EXCEPT !.hr = "E_POINTER"]
    ELSE
      LET filename_utf8 == IF conv.null THEN <<>> ELSE conv.str
          include_text == IF ~res.isnull /\ res.hasdata THEN res.data ELSE <<>>
          include_len == IF ~res.isnull THEN res.len ELSE 0
      IN [hr |-> "S_OK",
          convNull |-> conv.null,
          nameTerminated |-> conv.null \/ conv.terminated,
          calls |-> << Event("include_func", c.ctx, filename_utf8, 0, res),
                       Event("CreateBlob", 0, include_text, include_len, NullResult),
                       Event("free_func", c.ctx, <<>>, 0, res) >>,
          out |-> IF blobOk
                  THEN [written |-> TRUE, data |-> include_text, len |-> include_len]
                  ELSE NoLoad.out]

\* ------------------------------------------------------------- asserts
\* Only assert(arguments).
AllocAssertsHold_ArgumentsOnly(b) == b.arguments
\* No assert on hr.
HrAssertHolds_Always(h) == TRUE

\* assert(arguments); assert(wtext_buf): both allocations returned non-null.
AllocAssertsHold(b) == b.arguments /\ b.wtext
\* assert(SUCCEEDED(hr)).
HrAssertHolds(h) == h = "S_OK"

\* No machDxcCompile call is being modelled statement by statement.
NoResult == [status |-> "none", err |-> <<FALSE, <<>>>>, obj |-> <<FALSE, <<>>>>]
IdleCall ==
    /\ pc = "idle"
    /\ ub = FALSE
    /\ wsize = 4
    /\ locale = "C"
    /\ envLocale = "C"
    /\ argsLen = 0
    /\ args = <<>>
    /\ bufs = [arguments |-> FALSE, wtext |-> FALSE]
    /\ m = [wbuf |-> <<>>, cursor |-> 0, arguments |-> <<>>]
    /\ cb = [present |-> FALSE, inc |-> FALSE, free |-> FALSE, ctx |-> 0]
    /\ handler = "none"
    /\ loads = 0
    /\ ls = NoLoad
    /\ hr = "none"
    /\ native = NoResult

\* ------------------------------------------------------------- Spec: the lifecycle
\* The references the extraction functions have added so far: every present
\* output starts at one reference, the one its result owns.
RECURSIVE Extracted(_)
Extracted(rs) ==
    IF rs = <<>> THEN 0
    ELSE LET more(b) == IF b.present /\ b.rc > 1 THEN b.rc - 1 ELSE 0
         IN more(Head(rs).err) + more(Head(rs).obj) + Extracted(Tail(rs))

Call(op, obj, ret) == [op |-> op, obj |-> obj, ret |-> ret]

Init ==
    /\ ndebug \in BOOLEAN
    /\ aborted = FALSE
    /\ module = [up |-> FALSE, mains |-> 0, shutdowns |-> 0, seq |-> <<>>]
    /\ compilers = <<>>
    /\ results = <<>>
    /\ last = Call("none", Null, Null)
    /\ IdleCall

\* machDxcInit: module set-up, DxcCreateInstance, assert(SUCCEEDED(hr)),
\* return dxcInstance.Detach(). created is whether DxcCreateInstance
\* succeeded; without the assert a failure returns the null pointer.
machDxcInit ==
    /\ ~aborted
    /\ module' = Did(DllMain(Called(module)), "DxcCreateInstance")
    /\ \E created \in BOOLEAN :
         IF created
         THEN /\ compilers' = Append(compilers, NewObject(1))
              /\ aborted' = aborted
              /\ last' = Call("machDxcInit", Null, CompilerH(Len(compilers) + 1))
         ELSE /\ compilers' = compilers
              /\ aborted' = ~ndebug
              /\ last' = Call("machDxcInit", Null, Null)
    /\ UNCHANGED <<ndebug, results, callVars>>

\* A machDxcDeinit that tears the module down before it releases the compiler.
machDxcDeinit_ShutdownFirst(c) ==
    /\ ~aborted
    /\ compilers[c].held > 0
    /\ compilers' = [compilers EXCEPT ![c] = machDxcDeinitObject(@)]
    /\ module' = Did(DllShutdown(Called(module)), "Release")
    /\ last' = Call("machDxcDeinit", CompilerH(c), Null)
    /\ UNCHANGED <<ndebug, aborted, results, callVars>>

\* machDxcDeinit(compiler), on a handle the caller holds.
machDxcDeinit(c) ==
    /\ ~aborted
    /\ compilers[c].held > 0
    /\ compilers' = [compilers EXCEPT ![c] = machDxcDeinitObject(@)]
    /\ module' = DllShutdown(Did(Called(module), "Release"))
    /\ last' = Call("machDxcDeinit", CompilerH(c), Null)
    /\ UNCHANGED <<ndebug, aborted, results, callVars>>

\* What one machDxcCompile call can end in: "assert" (a failed assert),
\* "null" (a failure HRESULT with the asserts compiled out: pCompileResult
\* was never set), or the result the native Compile stored.
CompileEnds(nd) ==
    (IF nd THEN {[end |-> "null"]} ELSE {[end |-> "assert"]})
    \cup { [end |-> "result", native |-> n] : n \in NativeOutcomes }

\* machDxcCompile(compiler, options), as one step. The CComPtr on the
\* compiler adds a reference for the call and its destructor gives it back.
machDxcCompile(c) ==
    /\ ~aborted
    /\ compilers[c].held > 0
    /\ Len(results) < MaxResults
    /\ \E e \in CompileEnds(ndebug) :
         /\ aborted' = (e.end = "assert")
         /\ compilers' = IF e.end = "assert"
                         THEN [compilers EXCEPT ![c] = AddRef(@)]
                         ELSE [compilers EXCEPT ![c] = Release(AddRef(@))]
         /\ results' = IF e.end = "result"
                       THEN Append(results, NewResult(e.native))
                       ELSE results
         /\ last' = Call("machDxcCompile", CompilerH(c),
                         IF e.end = "result" THEN ResultH(Len(results) + 1)
                         ELSE Null)
    /\ UNCHANGED <<ndebug, module, callVars>>

\* machDxcCompileResultGetError(result), on a handle the caller holds.
machDxcCompileResultGetError(r) ==
    /\ ~aborted
    /\ results[r].held > 0
    /\ Extracted(results) < MaxGets
    /\ LET x == machDxcCompileResultGetErrorObject(results[r])
       IN /\ results' = [results EXCEPT ![r] = x.res]
          /\ last' = Call("machDxcCompileResultGetError", ResultH(r),
                          IF x.ret THEN ErrorH(r) ELSE Null)
    /\ UNCHANGED <<ndebug, aborted, module, compilers, callVars>>

\* machDxcCompileResultGetObject(result), on a handle the caller holds.
machDxcCompileResultGetObject(r) ==
    /\ ~aborted
    /\ results[r].held > 0
    /\ Extracted(results) < MaxGets
    /\ LET x == machDxcCompileResultGetObjectObject(results[r])
       IN /\ results' = [results EXCEPT ![r] = x.res]
          /\ last' = Call("machDxcCompileResultGetObject", ResultH(r),
                          IF x.ret THEN ObjectH(r) ELSE Null)
    /\ UNCHANGED <<ndebug, aborted, module, compilers, callVars>>

\* machDxcCompileResultDeinit(result), on a handle the caller holds.
machDxcCompileResultDeinit(r) ==
    /\ ~aborted
    /\ results[r].held > 0
    /\ results' = [results EXCEPT ![r] = machDxcCompileResultDeinitObject(@)]
    /\ last' = Call("machDxcCompileResultDeinit", ResultH(r), Null)
    /\ UNCHANGED <<ndebug, aborted, module, compilers, callVars>>

\* machDxcCompileObjectGetBytes(object): the blob's buffer pointer.
machDxcCompileObjectGetBytes(r) ==
    /\ ~aborted
    /\ results[r].obj.held > 0
    /\ results' = [results EXCEPT ![r].obj = Accessor(@)]
    /\ last' = Call("machDxcCompileObjectGetBytes", ObjectH(r), <<"buffer", r>>)
    /\ UNCHANGED <<ndebug, aborted, module, compilers, callVars>>

\* machDxcCompileObjectGetBytesLength(object).
machDxcCompileObjectGetBytesLength(r) ==
    /\ ~aborted
    /\ results[r].obj.held > 0
    /\ results' = [results EXCEPT ![r].obj = Accessor(@)]
    /\ last' = Call("machDxcCompileObjectGetBytesLength", ObjectH(r),
                    <<"size", GetBufferSize(results[r].obj)>>)
    /\ UNCHANGED <<ndebug, aborted, module, compilers, callVars>>

\* machDxcCompileObjectDeinit(object), on a handle the caller holds.
machDxcCompileObjectDeinit(r) ==
    /\ ~aborted
    /\ results[r].obj.held > 0
    /\ results' = [results EXCEPT ![r].obj = machDxcCompileObjectDeinitObject(@)]
    /\ last' = Call("machDxcCompileObjectDeinit", ObjectH(r), Null)
    /\ UNCHANGED <<ndebug, aborted, module, compilers, callVars>>

\* machDxcCompileErrorGetString(error): the blob's buffer pointer.
machDxcCompileErrorGetString(r) ==
    /\ ~aborted
    /\ results[r].err.held > 0
    /\ results' = [results EXCEPT ![r].err = Accessor(@)]
    /\ last' = Call("machDxcCompileErrorGetString", ErrorH(r), <<"buffer", r>>)
    /\ UNCHANGED <<ndebug, aborted, module, compilers, callVars>>

\* machDxcCompileErrorGetStringLength(error).
machDxcCompileErrorGetStringLength(r) ==
    /\ ~aborted
    /\ results[r].err.held > 0
    /\ results' = [results EXCEPT ![r].err = Accessor(@)]
    /\ last' = Call("machDxcCompileErrorGetStringLength", ErrorH(r),
                    <<"size", GetStringLength(results[r].err)>>)
    /\ UNCHANGED <<ndebug, aborted, module, compilers, callVars>>

\* machDxcCompileErrorDeinit(error), on a handle the caller holds.
machDxcCompileErrorDeinit(r) ==
    /\ ~aborted
    /\ results[r].err.held > 0
    /\ results' = [results EXCEPT ![r].err = machDxcCompileErrorDeinitObject(@)]
    /\ last' = Call("machDxcCompileErrorDeinit", ErrorH(r), Null)
    /\ UNCHANGED <<ndebug, aborted, module, compilers, callVars>>

Next ==
    \/ (module.mains < MaxCompilers /\ machDxcInit)
    \/ \E c \in DOMAIN compilers : machDxcDeinit(c)
    \/ \E c \in DOMAIN compilers : machDxcCompile(c)
    \/ \E r \in DOMAIN results : machDxcCompileResultGetError(r)
    \/ \E r \in DOMAIN results : machDxcCompileResultGetObject(r)
    \/ \E r \in DOMAIN results : machDxcCompileResultDeinit(r)
    \/ \E r \in DOMAIN results : machDxcCompileObjectGetBytes(r)
    \/ \E r \in DOMAIN results : machDxcCompileObjectGetBytesLength(r)
    \/ \E r \in DOMAIN results : machDxcCompileObjectDeinit(r)
    \/ \E r \in DOMAIN results : machDxcCompileErrorGetString(r)
    \/ \E r \in DOMAIN results : machDxcCompileErrorGetStringLength(r)
    \/ \E r \in DOMAIN results : machDxcCompileErrorDeinit(r)

Spec == Init /\ [][Next]_vars

\* ------------------------------------------------------------- SpecModule: several compilers
\* machDxcInit, machDxcDeinit and machDxcCompile on several Compiler
\* handles, in any order.
NextModule ==
    \/ (module.mains < MaxInits /\ machDxcInit)
    \/ \E c \in DOMAIN compilers : machDxcDeinit(c)
    \/ \E c \in DOMAIN compilers : machDxcCompile(c)

SpecModule == Init /\ [][NextModule]_vars

\* ------------------------------------------------------------- SpecCompile: one machDxcCompile call
\* The call is machDxcCompile(compiler 1, options) on a Ready compiler.
InitCompile ==
    /\ ndebug \in BOOLEAN
    /\ aborted = FALSE
    /\ module = [up |-> TRUE, mains |-> 1, shutdowns |-> 0,
                 seq |-> <<"DllMain", "DxcCreateInstance">>]
    /\ compilers = << NewObject(1) >>
    /\ results = <<>>
    /\ last = Call("machDxcInit", Null, CompilerH(1))
    /\ pc = "start"
    /\ ub = FALSE
    /\ wsize \in {2, 4}
    /\ envLocale \in {"C", "MB"}
    /\ locale \in {"C", envLocale}
    /\ argsLen = 0
    /\ args = <<>>
    /\ bufs = [arguments |-> FALSE, wtext |-> FALSE]
    /\ m = [wbuf |-> <<>>, cursor |-> 0, arguments |-> <<>>]
    /\ cb = [present |-> FALSE, inc |-> FALSE, free |-> FALSE, ctx |-> 0]
    /\ handler = "none"
    /\ loads = 0
    /\ ls = NoLoad
    /\ hr = "none"
    /\ native = NoResult

\* CComPtr on the compiler, DxcCreateInstance(CLSID_DxcUtils), CreateBlob of
\* the source, the DxcBuffer. Neither HRESULT is looked at: when a creation
\* fails the next statement dereferences a null pointer.
Compile_Begin ==
    /\ pc = "start"
    /\ compilers' = [compilers EXCEPT ![1] = AddRef(@)]
    /\ \E created \in BOOLEAN :
         /\ pc' = IF created THEN "alloc" ELSE "crashed"
         /\ ub' = ~created
    /\ UNCHANGED <<ndebug, aborted, module, results, last, wsize, locale,
                   envLocale, argsLen, args, bufs, m, cb, handler, loads, ls,
                   hr, native>>

\* The two malloc calls and the two asserts on them. With the asserts
\* compiled out and an allocation failed, a loop that runs at all works on
\* a null pointer.
Compile_Alloc ==
    /\ pc = "alloc"
    /\ \E n \in 0..MaxArgs, a1 \in BOOLEAN, a2 \in BOOLEAN :
         LET b == [arguments |-> a1, wtext |-> a2]
         IN /\ argsLen' = n
            /\ bufs' = b
            /\ m' = MarshalStart(wsize)
            /\ IF AllocAssertsHold(b)
               THEN pc' = "loop" /\ aborted' = aborted /\ ub' = ub
               ELSE IF ~ndebug
               THEN pc' = "aborted" /\ aborted' = TRUE /\ ub' = ub
               ELSE IF n = 0
               THEN pc' = "loop" /\ aborted' = aborted /\ ub' = ub
               ELSE pc' = "crashed" /\ aborted' = aborted /\ ub' = TRUE
    /\ UNCHANGED <<ndebug, module, compilers, results, last, wsize, locale,
                   envLocale, args, cb, handler, loads, ls, hr, native>>

\* One iteration of the marshaling loop, on the next argument of the list.
Compile_LoopArg ==
    /\ pc = "loop"
    /\ Len(args) < argsLen
    /\ \E arg \in ArgStrings :
       \E x \in { MarshalArg(locale, Cap(wsize), m, arg) } :
            /\ args' = Append(args, arg)
            /\ m' = x.st
            /\ ub' = (ub \/ x.oob)
    /\ UNCHANGED <<lifeVars, pc, wsize, locale, envLocale, argsLen, bufs, cb,
                   handler, loads, ls, hr, native>>

\* The loop is over: the handler is made when options->include_callbacks is
\* non-null, and dxcInstance->Compile is entered with the arguments. From
\* here on the wrapper reads neither the argument list nor the scratch
\* buffer again, and the model keeps of them only that they are allocated.
Compile_CallNative ==
    /\ pc = "loop"
    /\ Len(args) = argsLen
    /\ \E c \in Callbacks :
         /\ cb' = c
         /\ handler' = IF c.present THEN "live" ELSE "none"
    /\ argsLen' = 0
    /\ args' = <<>>
    /\ m' = [wbuf |-> <<>>, cursor |-> 0, arguments |-> <<>>]
    /\ pc' = "native"
    /\ UNCHANGED <<lifeVars, ub, wsize, locale, envLocale, bufs,
                   loads, ls, hr, native>>

\* The native compiler asks the handler for an include file. A well-formed
\* handler converts the name with wcstombsAlloc, which sets the locale. For
\* a result without header_data CreateBlob copies header_length bytes from
\* the one-byte literal u8"": more than one is a read past the literal.
Compile_LoadSource ==
    /\ pc = "native"
    /\ handler = "live"
    /\ loads < MaxIncludes
    /\ loads' = loads + 1
    /\ \E filename \in FileNames :
       \E conv0 \in { wcstombsAlloc(filename, locale, envLocale, wsize) } :
       \* realloc(buf, size + 1) of a buffer that holds no 0 byte at size:
       \* the last byte of the returned buffer is indeterminate.
       \E lastByte \in (IF conv0.null \/ conv0.terminated THEN {TRUE} ELSE BOOLEAN) :
       \E conv \in { [conv0 EXCEPT !.terminated = @ \/ (~conv0.null /\ lastByte)] } :
       \E res \in IncludeResults, blobOk \in BOOLEAN :
       \E x \in { LoadSource(cb, conv, res, blobOk) } :
            /\ ls' = IF x.hr = "S_OK"
                     THEN [hr |-> x.hr, convNull |-> x.convNull,
                           nameTerminated |-> x.nameTerminated,
                           calls |-> x.calls, out |-> x.out,
                           name |-> filename, conv |-> conv]
                     ELSE x
            /\ locale' = IF x.hr = "S_OK" THEN envLocale ELSE locale
            /\ ub' = (ub \/ (x.hr = "S_OK" /\ conv.oob)
                         \/ (x.hr = "S_OK" /\ ~res.isnull /\ ~res.hasdata
                               /\ res.len > 1))
    /\ UNCHANGED <<lifeVars, pc, wsize, envLocale, argsLen, args, bufs, m, cb,
                   handler, hr, native>>

\* dxcInstance->Compile returns: a failure HRESULT with no result stored, or
\* success with a result. No LoadSource call is in progress any more.
Compile_NativeReturn ==
    /\ pc = "native"
    /\ \E ok \in BOOLEAN, n \in NativeOutcomes :
         /\ hr' = IF ok THEN "S_OK" ELSE "E_FAIL"
         /\ native' = IF ok THEN n ELSE NoResult
    /\ ls' = NoLoad
    /\ pc' = "delete"
    /\ UNCHANGED <<lifeVars, ub, wsize, locale, envLocale, argsLen, args, bufs,
                   m, cb, handler, loads>>

\* A machDxcCompile that deletes the handler after the assert on hr, so
\* only when the assert lets the call go on.
Compile_DeleteHandler_AfterAssert ==
    /\ pc = "delete"
    /\ handler' = IF handler = "live" /\ (HrAssertHolds(hr) \/ ndebug)
                  THEN "deleted" ELSE handler
    /\ pc' = "assert"
    /\ UNCHANGED <<lifeVars, ub, wsize, locale, envLocale, argsLen, args, bufs,
                   m, cb, loads, ls, hr, native>>

\* if (handler != nullptr) delete handler.
Compile_DeleteHandler ==
    /\ pc = "delete"
    /\ handler' = IF handler = "live" THEN "deleted" ELSE handler
    /\ pc' = "assert"
    /\ UNCHANGED <<lifeVars, ub, wsize, locale, envLocale, argsLen, args, bufs,
                   m, cb, loads, ls, hr, native>>

\* assert(SUCCEEDED(hr)).
Compile_AssertHr ==
    /\ pc = "assert"
    /\ IF HrAssertHolds(hr) \/ ndebug
       THEN pc' = "free" /\ aborted' = aborted
       ELSE pc' = "aborted" /\ aborted' = TRUE
    /\ UNCHANGED <<ndebug, module, compilers, results, last, ub, wsize, locale,
                   envLocale, argsLen, args, bufs, m, cb, handler, loads, ls,
                   hr, native>>

\* free(arguments); free(wtext_buf); return pCompileResult.Detach(): the
\* caller gets the result Compile stored, or the null pointer; the CComPtr
\* on the compiler is released by its destructor.
Compile_Return ==
    /\ pc = "free"
    /\ bufs' = [arguments |-> FALSE, wtext |-> FALSE]
    /\ results' = IF native.status # "none"
                  THEN Append(results, NewResult(native)) ELSE results
    /\ compilers' = [compilers EXCEPT ![1] = Release(@)]
    /\ last' = Call("machDxcCompile", CompilerH(1),
                    IF native.status # "none" THEN ResultH(Len(results) + 1)
                    ELSE Null)
    /\ pc' = "returned"
    /\ UNCHANGED <<ndebug, aborted, module, ub, wsize, locale, envLocale,
                   argsLen, args, m, cb, handler, loads, ls, hr, native>>

\* After undefined behaviour the process may also stop at any statement.
Compile_Crash ==
    /\ ub
    /\ pc \in {"loop", "native", "delete", "assert", "free"}
    /\ pc' = "crashed"
    /\ UNCHANGED <<lifeVars, ub, wsize, locale, envLocale, argsLen, args, bufs,
                   m, cb, handler, loads, ls, hr, native>>

NextCompile ==
    \/ Compile_Begin
    \/ Compile_Alloc
    \/ Compile_LoopArg
    \/ Compile_CallNative
    \/ Compile_LoadSource
    \/ Compile_NativeReturn
    \/ Compile_DeleteHandler
    \/ Compile_AssertHr
    \/ Compile_Return
    \/ Compile_Crash

SpecCompile == InitCompile /\ [][NextCompile]_vars

\* ------------------------------------------------------------- the claims
\* The reference count of the native object a handle wraps.
RcOf(h, cs, rs) ==
    IF h[1] = "compiler" THEN cs[h[2]].rc
    ELSE IF h[1] = "result" THEN rs[h[2]].rc
    ELSE IF h[1] = "error" THEN rs[h[2]].err.rc
    ELSE rs[h[2]].obj.rc

DeinitOps ==
    {"machDxcDeinit", "machDxcCompileResultDeinit",
     "machDxcCompileObjectDeinit", "machDxcCompileErrorDeinit"}
ExtractOps ==
    {"machDxcCompileResultGetError", "machDxcCompileResultGetObject"}

\* C1: every deinit function releases exactly one reference of the object
\* its handle wraps: the object's reference count after the call is one
\* less than before it.
ClaimC1 ==
    [][last'.op \in DeinitOps =>
          RcOf(last'.obj, compilers', results')
              = RcOf(last'.obj, compilers, results) - 1]_vars

\* A native object the caller may use: not destroyed, with a positive count.
Valid(x) == x.alive /\ x.rc > 0

\* C2: a CompileError or CompileObject the caller holds is valid whatever
\* has been done to its CompileResult, and a CompileResult the caller holds
\* is valid, with its outputs, whatever has been done to the handles
\* extracted from it.
TheoremC2 ==
    \A r \in DOMAIN results :
        /\ results[r].err.held > 0 => Valid(results[r].err)
        /\ results[r].obj.held > 0 => Valid(results[r].obj)
        /\ results[r].held > 0 =>
              /\ Valid(results[r])
              /\ results[r].err.present => Valid(results[r].err)
              /\ results[r].obj.present => Valid(results[r].obj)

\* An extracted CompileError is read after its CompileResult was deinit-ed,
\* and after another handle on the same error was deinit-ed.
WitnessC2 ==
    /\ last.op = "machDxcCompileErrorGetString"
    /\ results[last.obj[2]].held = 0
    /\ results[last.obj[2]].err.held = 1
    /\ results[last.obj[2]].err.rc > 2

\* C3: every non-null return of an extraction function adds exactly one
\* reference to the output it returns and one handle to the caller, changes
\* nothing else of the result (the content of the output, the other output,
\* the result's own count), so that the handles of one output read the same
\* bytes; and the deinit of one handle leaves the output valid for the
\* handles still held.
TheoremC3 ==
    [][/\ (last'.op \in ExtractOps /\ last'.ret # Null) =>
            LET r == last'.obj[2]
                old == IF last'.ret[1] = "error" THEN results[r].err
                       ELSE results[r].obj
                new == IF last'.ret[1] = "error" THEN results'[r].err
                       ELSE results'[r].obj
            IN /\ new = [old EXCEPT !.rc = @ + 1, !.held = @ + 1]
               /\ Len(new.data) > 0
               /\ results' = [results EXCEPT
                                 ![r] = IF last'.ret[1] = "error"
                                        THEN [@ EXCEPT !.err = new]
                                        ELSE [@ EXCEPT !.obj = new]]
       /\ last'.op \in {"machDxcCompileObjectDeinit", "machDxcCompileErrorDeinit"} =>
            LET r == last'.obj[2]
                new == IF last'.obj[1] = "error" THEN results'[r].err
                       ELSE results'[r].obj
                old == IF last'.obj[1] = "error" THEN results[r].err
                       ELSE results[r].obj
            IN /\ new.data = old.data
               /\ new.held > 0 => Valid(new)
      ]_vars

\* Two handles extracted from one result's error output are held at once.
WitnessC3 ==
    \E r \in DOMAIN results :
        /\ results[r].err.held = 2
        /\ last.op = "machDxcCompileResultGetError"
        /\ last.ret = ErrorH(r)

\* C4: an extraction on a result whose output is absent or empty returns
\* null, and an extraction that returns null leaves every reference count
\* as it was: the result's, and that of the output it looked at.
TheoremC4 ==
    [][/\ (last'.op \in ExtractOps /\ last'.ret = Null) => results' = results
       /\ last'.op \in ExtractOps =>
            LET r == last'.obj[2]
                out == IF last'.op = "machDxcCompileResultGetError"
                       THEN results[r].err ELSE results[r].obj
            IN (~out.present \/ Len(out.data) = 0) => last'.ret = Null
      ]_vars

\* GetError has returned null for a result whose error output exists and is
\* empty, so that the call did hold a reference of it.
WitnessC4 ==
    /\ last.op = "machDxcCompileResultGetError"
    /\ last.ret = Null
    /\ results[last.obj[2]].err.present

\* C5: for a result whose machDxcCompileResultGetObject returns an object,
\* machDxcCompileResultGetError returns null.
ClaimC5 ==
    (/\ last.op = "machDxcCompileResultGetError"
     /\ machDxcCompileResultGetObjectObject(results[last.obj[2]]).ret)
    => last.ret = Null

\* The compile of this call failed: the native call returned a failure
\* HRESULT, or it stored a result with the status of a failed compile.
FailedCompile == hr = "E_FAIL" \/ native.status = "fail"

\* What the extraction functions return for the result machDxcCompile returned.
ReturnedError == machDxcCompileResultGetErrorObject(results[last.ret[2]]).ret
ReturnedObject == machDxcCompileResultGetObjectObject(results[last.ret[2]]).ret

CallsOf(f) == SelectSeq(ls.calls, LAMBDA e : e.f = f)
\* The position of the k-th call of f among the calls of the last LoadSource.
RECURSIVE PosOf(_, _, _)
PosOf(f, k, from) ==
    IF ls.calls[from].f = f
    THEN (IF k = 1 THEN from ELSE PosOf(f, k - 1, from + 1))
    ELSE PosOf(f, k, from + 1)

\* C7: in every LoadSource call free_func is called exactly once for each
\* call of include_func, after it, with the context of the callbacks and
\* the result include_func returned.
TheoremC7 ==
    LET inc == CallsOf("include_func")
        fre == CallsOf("free_func")
    IN /\ Len(fre) = Len(inc)
       /\ ls.hr = "S_OK" => Len(inc) = 1
       /\ \A k \in 1..Len(fre) :
             /\ fre[k].res = inc[k].res
             /\ fre[k].ctx = cb.ctx
             /\ inc[k].ctx = cb.ctx
             /\ PosOf("include_func", k, 1) < PosOf("free_func", k, 1)

\* A LoadSource call whose name conversion failed and whose include_func
\* returned null has made its calls.
WitnessC7 ==
    /\ ls.hr = "S_OK"
    /\ ls.convNull
    /\ ls.calls[1].f = "include_func"
    /\ ls.calls[1].res.isnull
    /\ cb.ctx = 1

\* C8: with callbacks supplied of which a function pointer is null, every
\* LoadSource call returns E_POINTER, calls neither callback and stores
\* nothing through ppIncludeSource.
TheoremC8 ==
    (loads > 0 /\ pc = "native" /\ cb.present /\ (~cb.inc \/ ~cb.free)) =>
        /\ ls.hr = "E_POINTER"
        /\ ls.calls = <<>>
        /\ ~ls.out.written

\* LoadSource was called on callbacks whose free_func alone is null.
WitnessC8 ==
    /\ loads > 0
    /\ pc = "native"
    /\ cb.present /\ cb.inc /\ ~cb.free
    /\ ls.hr = "E_POINTER"

\* The wide length of a narrow argument, SizeMax when it does not convert.
WideLen(s) == mbstowcs(locale, s, SizeMax, <<>>).ret
RECURSIVE Needed(_)
Needed(as) ==
    IF as = <<>> THEN 0 ELSE WideLen(Head(as)) + 1 + Needed(Tail(as))
\* Every argument converted so far is a valid multibyte string, and the
\* converted lengths with one terminator each fit in the scratch buffer.
ArgsFit ==
    /\ \A i \in 1..Len(args) : WideLen(args[i]) # SizeMax
    /\ Needed(args) <= Cap(wsize)

\* The wide string at offset off of the scratch buffer: the elements before
\* the first terminator; ok is FALSE when the buffer ends before one.
RECURSIVE WcsAt(_, _)
WcsAt(off, acc) ==
    IF off + 1 > Len(m.wbuf) THEN [ok |-> FALSE, str |-> acc]
    ELSE IF m.wbuf[off + 1] = 0 THEN [ok |-> TRUE, str |-> acc]
    ELSE WcsAt(off + 1, Append(acc, m.wbuf[off + 1]))

\* C9: after any number of iterations on arguments that convert and fit,
\* the loop has stored one pointer per argument, each into the buffer, at a
\* null-terminated string that converts back to the argument, the strings
\* with their terminators lying one after the other without overlap.
TheoremC9 ==
    (pc = "loop" /\ ArgsFit) =>
        /\ Len(m.arguments) = Len(args)
        /\ \A i \in 1..Len(args) :
              LET w == WcsAt(m.arguments[i], <<>>)
              IN /\ m.arguments[i] \in 0..(Cap(wsize) - 1)
                 /\ w.ok
                 /\ wcstombs(locale, w.str, SizeMax, <<>>).out = args[i]
                 /\ wcstombs(locale, w.str, SizeMax, <<>>).ret = Len(args[i])
                 /\ \A j \in 1..Len(args) :
                       i < j => m.arguments[i] + Len(w.str) < m.arguments[j]
        /\ ~ub

\* The loop is over for two arguments, one of them a two-byte character,
\* that fill the buffer to its last element.
WitnessC9 ==
    /\ pc = "loop"
    /\ argsLen = 2
    /\ Len(args) = 2
    /\ ArgsFit
    /\ Needed(args) = Cap(wsize)
    /\ \E i \in 1..2 : args[i] = <<2, 2>>

LiveCompilers(cs) == { c \in DOMAIN cs : cs[c].held > 0 }

\* C11: the module teardown runs only on a module that is set up, and only
\* in the deinit of the last live Compiler handle: never while another
\* handle is live, never twice without a set-up in between.
ClaimC11 ==
    [][module'.shutdowns # module.shutdowns =>
          (module.up /\ LiveCompilers(compilers') = {})]_vars

\* The number of handles on the object of handle h the caller holds, and
\* whether that object is alive.
HeldOf(h, cs, rs) ==
    IF h[1] = "compiler" THEN cs[h[2]].held
    ELSE IF h[1] = "result" THEN rs[h[2]].held
    ELSE IF h[1] = "error" THEN rs[h[2]].err.held
    ELSE rs[h[2]].obj.held
AliveOf(h, cs, rs) ==
    IF h[1] = "compiler" THEN cs[h[2]].alive
    ELSE IF h[1] = "result" THEN rs[h[2]].alive
    ELSE IF h[1] = "error" THEN rs[h[2]].err.alive
    ELSE rs[h[2]].obj.alive

AccessorOps ==
    {"machDxcCompileObjectGetBytes", "machDxcCompileObjectGetBytesLength",
     "machDxcCompileErrorGetString", "machDxcCompileErrorGetStringLength"}

\* The handles of the objects that exist.
Handles(cs, rs) ==
    { CompilerH(c) : c \in DOMAIN cs } \cup { ResultH(r) : r \in DOMAIN rs }
    \cup { ErrorH(r) : r \in DOMAIN rs } \cup { ObjectH(r) : r \in DOMAIN rs }

\* C12: a machDxcCompile call or an accessor call that returns leaves the
\* handle it was given as it found it (same reference count, still held,
\* its object alive), a Compiler handle is held from the machDxcInit that
\* returned it on, and a handle stops being held only in its own deinit.
TheoremC12 ==
    [][/\ (last'.op \in AccessorOps \cup {"machDxcCompile"} /\ ~aborted') =>
            /\ RcOf(last'.obj, compilers', results')
                  = RcOf(last'.obj, compilers, results)
            /\ HeldOf(last'.obj, compilers', results')
                  = HeldOf(last'.obj, compilers, results)
            /\ HeldOf(last'.obj, compilers', results') > 0
            /\ AliveOf(last'.obj, compilers', results')
       /\ (last'.op = "machDxcInit" /\ last'.ret # Null) =>
            (HeldOf(last'.ret, compilers', results') = 1
             /\ AliveOf(last'.ret, compilers', results'))
       /\ \A h \in Handles(compilers, results) :
            HeldOf(h, compilers', results') < HeldOf(h, compilers, results) =>
                (last'.op \in DeinitOps /\ last'.obj = h)
      ]_vars

\* machDxcCompile has returned a result and the compiler it was given is
\* still held, with the count machDxcInit left.
WitnessC12 ==
    /\ last.op = "machDxcCompile"
    /\ last.ret # Null
    /\ compilers[last.obj[2]].held = 1
    /\ compilers[last.obj[2]].rc = 1

\* C13: the include handler exists only inside the call: there is none
\* before the native Compile is entered, during it there is a live one
\* exactly when options->include_callbacks is non-null, LoadSource runs
\* only on a live handler during Compile, and once Compile has returned
\* and the delete statement is past the handler is deleted, whether the
\* call then returns or ends at the assert.
TheoremC13 ==
    /\ pc \in {"start", "alloc", "loop"} => handler = "none"
    /\ pc \in {"native", "delete"} =>
          handler = (IF cb.present THEN "live" ELSE "none")
    /\ pc \in {"assert", "free", "returned"} =>
          handler = (IF cb.present THEN "deleted" ELSE "none")
    /\ pc = "aborted" => handler # "live"
    /\ (pc = "aborted" /\ hr # "none") =>
          handler = (IF cb.present THEN "deleted" ELSE "none")
    /\ ls # NoLoad => (pc \in {"native", "crashed"} /\ handler = "live")
    /\ loads > 0 => handler # "none"

\* The call has ended at the assert on hr after its handler served a
\* request and was deleted.
WitnessC13 ==
    /\ pc = "aborted"
    /\ hr = "E_FAIL"
    /\ loads > 0
    /\ handler = "deleted"

\* The result include_func returned in the last LoadSource call.
IncludeResult == ls.calls[1].res

\* C14: the blob LoadSource hands to the native compiler is empty, created
\* with length 0, when include_func returned null or a result without
\* header_data, and otherwise holds header_length bytes of header_data.
ClaimC14 ==
    (ls.hr = "S_OK" /\ ls.out.written) =>
        IF IncludeResult.isnull \/ ~IncludeResult.hasdata
        THEN ls.out.len = 0 /\ ls.out.data = <<>>
        ELSE ls.out.len = IncludeResult.len /\ ls.out.data = IncludeResult.data

\* The callees of the last LoadSource call, in order.
Callees == [i \in 1..Len(ls.calls) |-> ls.calls[i].f]

\* C15: a LoadSource request on well-formed callbacks calls include_func
\* with a non-null, null-terminated name (the empty string when the
\* conversion failed), then copies the content into the blob, then calls
\* free_func, and reads nothing of the result after that.
ClaimC15 ==
    ls.hr = "S_OK" =>
        /\ Callees = <<"include_func", "CreateBlob", "free_func">>
        /\ ls.convNull => ls.calls[1].text = <<>>
        /\ ls.nameTerminated

\* C16: machDxcInit runs the module set-up once, before it constructs the
\* compiler; machDxcDeinit runs the module teardown once, after it has
\* released the compiler; no other operation touches the module.
TheoremC16 ==
    [][/\ last'.op = "machDxcInit" =>
            /\ module'.mains = module.mains + 1
            /\ module'.shutdowns = module.shutdowns
            /\ module'.seq = <<"DllMain", "DxcCreateInstance">>
       /\ last'.op = "machDxcDeinit" =>
            /\ module'.shutdowns = module.shutdowns + 1
            /\ module'.mains = module.mains
            /\ module'.seq = <<"Release", "DllShutdown">>
       /\ last'.op \notin {"machDxcInit", "machDxcDeinit"} => module' = module
      ]_vars

\* One compiler was made, used for a compile and deinit-ed: one set-up and
\* one teardown.
WitnessC16 ==
    /\ last.op = "machDxcDeinit"
    /\ module.mains = 1
    /\ module.shutdowns = 1
    /\ results # <<>>

\* The locale selected by setlocale(LC_CTYPE, "") can encode no character
\* for some element of the wide string w.
EncodingError(w) == \E i \in 1..Len(w) : WcEncode(envLocale, w[i]) = <<>>

\* C17: wcstombsAlloc returns null exactly when the conversion reports an
\* encoding error, otherwise a buffer whose last byte is the terminator,
\* and the conversion stores nothing outside the bytes allocated for it.
ClaimC17 ==
    ls.hr = "S_OK" =>
        /\ ls.conv.null <=> EncodingError(ls.name)
        /\ ~ls.conv.null => ls.conv.terminated
        /\ ~ls.conv.oob

\* C18: in the marshaling loop the write cursor stays inside the scratch
\* buffer, so that the unsigned count of available elements never wraps,
\* and mbstowcs stores no element outside the buffer.
ClaimC18 ==
    pc = "loop" => (m.cursor \in 0..Cap(wsize) /\ ~ub)

\* C19: a LoadSource call that returns S_OK has stored a blob through
\* ppIncludeSource.
ClaimC19 ==
    ls.hr = "S_OK" => ls.out.written

\* C20: the object of every handle an extraction function returned has
\* content: the length accessors return more than 0 for it; and an output
\* that exists but is empty is returned as null.
TheoremC20 ==
    /\ \A r \in DOMAIN results :
          /\ results[r].err.held > 0 => GetStringLength(results[r].err) > 0
          /\ results[r].obj.held > 0 => GetBufferSize(results[r].obj) > 0
    /\ last.op \in {"machDxcCompileErrorGetStringLength",
                    "machDxcCompileObjectGetBytesLength"} => last.ret[2] > 0
    /\ (last.op = "machDxcCompileResultGetError"
        /\ GetStringLength(results[last.obj[2]].err) = 0) => last.ret = Null
    /\ (last.op = "machDxcCompileResultGetObject"
        /\ GetBufferSize(results[last.obj[2]].obj) = 0) => last.ret = Null

\* GetObject has returned null for a failed compile's object output, which
\* exists and is empty, after the length of the extracted error was read.
WitnessC20 ==
    /\ last.op = "machDxcCompileResultGetObject"
    /\ last.ret = Null
    /\ results[last.obj[2]].obj.present
    /\ results[last.obj[2]].err.held > 0

====
